---- MODULE Spec2Model ----
(***************************************************************************)
(* A model of databricks/sql/utils.py: the ArrowQueue row cursor, the      *)
(* _bound helper, the NoRetryReason enumeration and the two renderings of  *)
(* RequestErrorInfo.                                                       *)
(*                                                                         *)
(* The specifications share the variables:                                 *)
(*   Spec          next_n_rows / remaining_rows calls on one ArrowQueue;   *)
(*   SpecThreads   two threads stepping through those methods on one queue;*)
(*   SpecQueues    calls on two ArrowQueue objects;                        *)
(*   SpecBound     _bound applied to any arguments, then to its result;    *)
(*   SpecRender    the two renderings of any RequestErrorInfo;             *)
(*   SpecRetry     the attempt loop that builds a RequestErrorInfo per     *)
(*                 failed attempt (SpecRetryFair: with every attempt       *)
(*                 ending).                                                *)
(***************************************************************************)
EXTENDS Integers, Sequences, FiniteSets, TLC

VARIABLES
    arrow_table,      \* ArrowQueue.arrow_table: the rows of the batch, in order
    n_valid_rows,     \* ArrowQueue.n_valid_rows
    cur_row_index,    \* ArrowQueue.cur_row_index
    call,             \* the last call made on the queue, with its argument and the index it found
    ret,              \* what that call returned: the rows of the slice
    raised,           \* the exception that call raised, or "none"
    started_at,       \* the start_row_index the queue was constructed with
    delivered,        \* all rows returned by the calls so far, in call order
    pc,               \* where the attempt loop, or the renderer, stands
    error_info,       \* the RequestErrorInfo of the last failed attempt, if any
    error_retryable,  \* whether that failure was classified retryable
    no_retry_reason,  \* the NoRetryReason decided for it, or None
    attempt,          \* the 1-based number of the current attempt
    max_attempts,     \* the attempt budget
    elapsed,          \* seconds spent so far
    max_duration,     \* the time budget, in seconds
    log_line,         \* the diagnostic line last rendered, if any, or the exception raised
    user_message,     \* the user-facing message last rendered, if any
    bound_call,       \* a call of _bound: its arguments and what it returned
    threads,          \* per thread calling into the one queue: its position and locals
    overlapped,       \* whether a call ever began while another call was in progress
    handed,           \* per row position, how many times the row was returned to a thread
    batches,          \* the Arrow tables several queues refer to, by reference
    queues,           \* several ArrowQueue objects, each with the reference of its table
    queue_called      \* which of them was called last, and with which method

queue_vars == <<arrow_table, n_valid_rows, cur_row_index, call, ret, raised,
               started_at, delivered>>
thread_vars == <<threads, overlapped, handed>>
multi_vars == <<batches, queues, queue_called>>
aux_vars == <<bound_call, thread_vars, multi_vars>>
retry_vars == <<pc, error_info, error_retryable, no_retry_reason, attempt, max_attempts,
                elapsed, max_duration, log_line, user_message>>
vars == <<queue_vars, retry_vars, aux_vars>>

(***************************************************************************)
(* Bounds of the model.                                                    *)
(***************************************************************************)
MaxRows == 3          \* the longest batch
MaxNumRows == 5       \* the largest num_rows argument
MinNumRowsMagnitude == 2   \* num_rows arguments go down to -MinNumRowsMagnitude
MaxAttemptsBound == 3 \* the largest attempt budget
MaxDurationBound == 3 \* the largest time budget, in seconds
MaxRetryDelay == 2    \* the longest retry delay, in seconds
MaxAttemptTime == 1   \* the longest a single attempt takes, in seconds
MaxBoundValue == 3    \* _bound is tried on -MaxBoundValue..MaxBoundValue and 5, 10, 15
MaxCallsPerThread == 1   \* the calls each thread makes on the shared queue

\* Python's None and a present value, for the fields that may be None.
None == <<>>
Some(x) == <<x>>

RowValues == {"a", "b"}

Min(a, b) == IF a <= b THEN a ELSE b
Max(a, b) == IF a >= b THEN a ELSE b

(***************************************************************************)
(* ArrowQueue                                                              *)
(***************************************************************************)

\* All batches of at most MaxRows rows.
Tables == UNION {[1..n -> RowValues] : n \in 0..MaxRows}

NumRowsArgs == (0 - MinNumRowsMagnitude)..MaxNumRows

\* pyarrow.Table.slice(offset, length) on a table with at least one column, as
\* the two methods call it: a negative offset raises IndexError, the offset is
\* cut to the table's length, and the slice holds the rows that exist from
\* there on, at most `length` of them, none when `length` is negative.
TableSlice(t, offset, length) ==
    IF offset < 0
    THEN [raised |-> "IndexError", rows |-> <<>>]
    ELSE LET off == Min(Len(t), offset)
             n   == Max(0, Min(length, Len(t) - off))
         IN  [raised |-> "none", rows |-> SubSeq(t, off + 1, off + n)]

\* The queue object as a record.
Queue(t, n, i) == [arrow_table |-> t, n_valid_rows |-> n, cur_row_index |-> i]

\* ArrowQueue.__init__
ArrowQueueInit(t, n_valid, start_row_index) == Queue(t, n_valid, start_row_index)

\* A plausible slip: the rows asked for, not capped by the rows left.
next_n_rows_length_uncapped(q, num_rows) == num_rows

\* line 22: length = min(num_rows, self.n_valid_rows - self.cur_row_index)
next_n_rows_length(q, num_rows) ==
    Min(num_rows, q.n_valid_rows - q.cur_row_index)

\* A plausible slip: the cursor is not advanced at all.
AdvanceCursorForgotten(q, length, rows) == q

\* A plausible slip: advance by the length asked for, not by the rows obtained.
AdvanceCursorByLength(q, length, rows) == [q EXCEPT !.cur_row_index = @ + length]

\* lines 24 and 29: self.cur_row_index += slice.num_rows
\* (length is the length the slice was asked for; the code does not use it here)
AdvanceCursor(q, length, rows) == [q EXCEPT !.cur_row_index = @ + Len(rows)]

\* The outcome of a method that asked for `length` rows and got `slice`: the queue
\* afterwards, the rows returned, the exception raised (the queue is then untouched).
Outcome(q, length, slice) ==
    IF slice.raised # "none"
    THEN [queue |-> q, ret |-> <<>>, raised |-> slice.raised]
    ELSE [queue |-> AdvanceCursor(q, length, slice.rows), ret |-> slice.rows,
          raised |-> "none"]

\* ArrowQueue.next_n_rows
next_n_rows(q, num_rows) ==
    LET length == next_n_rows_length(q, num_rows)
    IN  Outcome(q, length, TableSlice(q.arrow_table, q.cur_row_index, length))

\* A plausible slip: the end index passed where a length is expected.
remaining_rows_length_as_end(q) == q.n_valid_rows

\* line 28: the length remaining_rows asks for
remaining_rows_length(q) == q.n_valid_rows - q.cur_row_index

\* ArrowQueue.remaining_rows
remaining_rows(q) ==
    LET length == remaining_rows_length(q)
    IN  Outcome(q, length, TableSlice(q.arrow_table, q.cur_row_index, length))

\* The queue of the current state.
Self == Queue(arrow_table, n_valid_rows, cur_row_index)

\* No further queues exist.
QueuesIdle ==
    /\ batches = <<>>
    /\ queues = <<>>
    /\ queue_called = [queue |-> 0, name |-> "none"]

\* No threads call into the queue, and no further queues exist.
ThreadsIdle ==
    /\ QueuesIdle
    /\ threads = <<>>
    /\ overlapped = FALSE
    /\ handed = <<>>

\* _bound has not been called, and no threads run.
BoundIdle == bound_call = [stage |-> "idle"] /\ ThreadsIdle

\* No request has been made.
RetryIdleFields ==
    /\ pc = "idle"
    /\ error_info = None
    /\ error_retryable = TRUE
    /\ no_retry_reason = None
    /\ attempt = 1
    /\ max_attempts = 1
    /\ elapsed = 0
    /\ max_duration = 0
    /\ log_line = None
    /\ user_message = None

\* Nothing but the queue is in use.
RetryIdle == RetryIdleFields /\ BoundIdle

\* A queue as constructed by a caller that respects the constructor's contract:
\* 0 <= start_row_index <= n_valid_rows <= number of rows of the table.
Init ==
    /\ RetryIdle
    /\ \E t \in Tables : \E n \in 0..Len(t) : \E s \in 0..n :
         LET q == ArrowQueueInit(t, n, s)
         IN  /\ arrow_table = q.arrow_table
             /\ n_valid_rows = q.n_valid_rows
             /\ cur_row_index = q.cur_row_index
             /\ call = [name |-> "__init__", num_rows |-> 0, before |-> s]
             /\ started_at = s
    /\ ret = <<>>
    /\ raised = "none"
    /\ delivered = <<>>

\* The effect of a method's outcome on the state.
Apply(o) ==
    /\ arrow_table' = o.queue.arrow_table
    /\ n_valid_rows' = o.queue.n_valid_rows
    /\ cur_row_index' = o.queue.cur_row_index
    /\ ret' = o.ret
    /\ raised' = o.raised
    /\ delivered' = delivered \o o.ret
    /\ UNCHANGED started_at

NextNRows ==
    \E num_rows \in NumRowsArgs :
        /\ Apply(next_n_rows(Self, num_rows))
        /\ call' = [name |-> "next_n_rows", num_rows |-> num_rows, before |-> cur_row_index]
        /\ UNCHANGED <<retry_vars, aux_vars>>

RemainingRows ==
    /\ Apply(remaining_rows(Self))
    /\ call' = [name |-> "remaining_rows", num_rows |-> 0, before |-> cur_row_index]
    /\ UNCHANGED <<retry_vars, aux_vars>>

Next == NextNRows \/ RemainingRows

Spec == Init /\ [][Next]_vars

(***************************************************************************)
(* NoRetryReason and RequestErrorInfo                                      *)
(***************************************************************************)

\* The members of the NoRetryReason enumeration.
NoRetryReasons == {"OUT_OF_TIME", "OUT_OF_ATTEMPTS", "NOT_RETRYABLE"}

\* NoRetryReason.<member>.value
NoRetryReasonValue(r) ==
    CASE r = "OUT_OF_TIME"     -> "out of time"
      [] r = "OUT_OF_ATTEMPTS" -> "out of attempts"
      [] r = "NOT_RETRYABLE"   -> "non-retryable error"

\* The exceptions a failed attempt wraps; str(error) is its message.
Errors == {[type |-> "OSError", message |-> "Connection reset by peer"],
           [type |-> "EOFError", message |-> "TSocket read 0 bytes"]}

\* The requests: one that carries a session handle, one that carries an operation
\* handle, one that carries neither.
SessionScopedRequest == [sessionHandle |-> [sessionId |-> [guid |-> "guid-s1"]]]
OperationScopedRequest == [operationHandle |-> [operationId |-> [guid |-> "guid-q1"]]]
OtherRequest == [client_protocol |-> "v1"]
Requests == {SessionScopedRequest, OperationScopedRequest, OtherRequest}

ErrorMessages == {None, Some(""), Some("timeout")}
RetryDelays == {None} \cup {Some(d) : d \in 0..MaxRetryDelay}
HttpCodes == {None, Some(503)}
Methods == {"ExecuteStatement"}

\* The RequestErrorInfo namedtuple: its six fields.
RequestErrorInfo(error, error_message, retry_delay, http_code, method, request) ==
    [error |-> error, error_message |-> error_message, retry_delay |-> retry_delay,
     http_code |-> http_code, method |-> method, request |-> request]

RequestErrorInfos ==
    {RequestErrorInfo(e, m, d, h, f, r) :
        e \in Errors, m \in ErrorMessages, d \in RetryDelays, h \in HttpCodes,
        f \in Methods, r \in Requests}

\* hasattr(request, name)
hasattr(request, name) == name \in DOMAIN request

\* An exception raised where a value was expected.
Raise(e) == <<"raise", e>>
IsRaise(o) == Len(o) = 2

\* obj.a.b.c for the attribute names in `path`: the value, or AttributeError at the
\* first object that has no such attribute.
RECURSIVE GetAttrPath(_, _)
GetAttrPath(obj, path) ==
    IF path = <<>> THEN Some(obj)
    ELSE IF hasattr(obj, Head(path)) THEN GetAttrPath(obj[Head(path)], Tail(path))
    ELSE Raise("AttributeError")

\* A plausible slip: the attribute is read without the hasattr test.
request_session_id_unguarded(self) ==
    GetAttrPath(self.request, <<"sessionHandle", "sessionId", "guid">>)

\* RequestErrorInfo.request_session_id
request_session_id(self) ==
    IF hasattr(self.request, "sessionHandle")
    THEN GetAttrPath(self.request, <<"sessionHandle", "sessionId", "guid">>)
    ELSE None

\* RequestErrorInfo.request_query_id
request_query_id(self) ==
    IF hasattr(self.request, "operationHandle")
    THEN GetAttrPath(self.request, <<"operationHandle", "operationId", "guid">>)
    ELSE None

\* "{}".format(v) of a string, of an int, of an exception, and of a value that
\* may be None.
StrOfStr(v) == v
StrOfInt(v) == ToString(v)
StrOfError(e) == e.message
StrOfOptionalStr(o) == IF o = None THEN "None" ELSE StrOfStr(o[1])
StrOfOptionalInt(o) == IF o = None THEN "None" ELSE StrOfInt(o[1])

\* "{}/{}".format(a, b)
FormatRatio(a, b) == StrOfInt(a) \o "/" \o StrOfInt(b)

\* An OrderedDict as the sequence of its items, in insertion order.
Item(k, v) == [k |-> k, v |-> v]
Keys(d) == [i \in 1..Len(d) |-> d[i].k]

\* d[k] = v on an OrderedDict: a new key goes last, a known key keeps its place.
SetItem(d, k, v) ==
    IF \E i \in 1..Len(d) : d[i].k = k
    THEN [i \in 1..Len(d) |-> IF d[i].k = k THEN Item(k, v) ELSE d[i]]
    ELSE Append(d, Item(k, v))

\* lines 76-83: the six items every line starts with (each value as format
\* later prints it).
LogBaseItems(self) ==
    << Item("Method", StrOfStr(self.method)),
       Item("Session-id", StrOfOptionalStr(request_session_id(self))),
       Item("Query-id", StrOfOptionalStr(request_query_id(self))),
       Item("HTTP-code", StrOfOptionalInt(self.http_code)),
       Item("Error-message", StrOfOptionalStr(self.error_message)),
       Item("Original-exception", StrOfError(self.error)) >>

\* A plausible slip: the retry items are added whether or not there is a reason.
LogTailItemsBoth(d, self, reason, att, max_att, el, max_dur) ==
    LET d1 == IF reason # None
              THEN SetItem(d, "No-retry-reason", NoRetryReasonValue(reason[1]))
              ELSE d
    IN  SetItem(SetItem(SetItem(d1,
            "Bounded-retry-delay", StrOfOptionalInt(self.retry_delay)),
            "Attempt", FormatRatio(att, max_att)),
            "Elapsed-seconds", FormatRatio(el, max_dur))

\* lines 85-90: the items that depend on no_retry_reason
LogTailItems(d, self, reason, att, max_att, el, max_dur) ==
    IF reason # None
    THEN SetItem(d, "No-retry-reason", NoRetryReasonValue(reason[1]))
    ELSE SetItem(SetItem(SetItem(d,
            "Bounded-retry-delay", StrOfOptionalInt(self.retry_delay)),
            "Attempt", FormatRatio(att, max_att)),
            "Elapsed-seconds", FormatRatio(el, max_dur))

\* lines 76-90: log_base_data_dict
log_base_data_dict(self, reason, att, max_att, el, max_dur) ==
    LogTailItems(LogBaseItems(self), self, reason, att, max_att, el, max_dur)

\* sep.join(parts)
RECURSIVE Join(_, _)
Join(sep, parts) ==
    IF parts = <<>> THEN ""
    ELSE IF Len(parts) = 1 THEN parts[1]
    ELSE parts[1] \o sep \o Join(sep, Tail(parts))

\* "{}: {}".format(a, b)
FormatPair(a, b) == a \o ": " \o b

\* RequestErrorInfo.full_info_logging_str: the string it builds
full_info_logging_str(self, reason, att, max_att, el, max_dur) ==
    LET d == log_base_data_dict(self, reason, att, max_att, el, max_dur)
    IN  Join("; ", [i \in 1..Len(d) |-> FormatPair(d[i].k, d[i].v)])

\* A call of full_info_logging_str: the exception of the first property that
\* raises (lines 78, 79), else the string.
full_info_logging_call(self, reason, att, max_att, el, max_dur) ==
    IF IsRaise(request_session_id(self)) THEN request_session_id(self)
    ELSE IF IsRaise(request_query_id(self)) THEN request_query_id(self)
    ELSE Some(full_info_logging_str(self, reason, att, max_att, el, max_dur))

\* Python's truth value of a str-or-None.
Truthy(o) == o # None /\ o[1] # ""

\* A plausible slip: `is not None` for the truth value of the message.
UserMessageBaseIfNotNone(self) ==
    IF self.error_message # None
    THEN FormatPair("Error during request to server", self.error_message[1])
    ELSE "Error during request to server"

\* A plausible slip: the exception's text is shown when there is no message.
UserMessageBaseWithError(self) ==
    IF Truthy(self.error_message)
    THEN FormatPair("Error during request to server", self.error_message[1])
    ELSE FormatPair("Error during request to server", StrOfError(self.error))

\* lines 98-101: the base sentence, with the error message when there is one
UserMessageBase(self) ==
    IF Truthy(self.error_message)
    THEN FormatPair("Error during request to server", self.error_message[1])
    ELSE "Error during request to server"

\* A plausible slip: `if` for `elif`, and no test of the reason in the second.
UserMessageSuffixFallThrough(msg, reason, att, el) ==
    LET m1 == IF reason = Some("OUT_OF_ATTEMPTS")
              THEN msg \o ": After " \o StrOfInt(att)
                       \o " retry attempts, retries are exhausted"
              ELSE msg
    IN  IF reason # None /\ reason # Some("NOT_RETRYABLE")
        THEN m1 \o ": After " \o StrOfInt(el)
                \o " seconds, maximum retry duration will be exceeded"
        ELSE m1

\* lines 103-108: the suffix that depends on no_retry_reason
UserMessageSuffix(msg, reason, att, el) ==
    IF reason = Some("OUT_OF_ATTEMPTS")
    THEN msg \o ": After " \o StrOfInt(att) \o " retry attempts, retries are exhausted"
    ELSE IF reason = Some("OUT_OF_TIME")
    THEN msg \o ": After " \o StrOfInt(el)
             \o " seconds, maximum retry duration will be exceeded"
    ELSE msg

\* RequestErrorInfo.user_friendly_error_message
user_friendly_error_message(self, reason, att, el) ==
    UserMessageSuffix(UserMessageBase(self), reason, att, el)

(***************************************************************************)
(* The renderings applied to any RequestErrorInfo and any arguments        *)
(* (specification SpecRender): both are pure, so each behaviour makes one  *)
(* call on the RequestErrorInfo it starts with.                            *)
(***************************************************************************)

OptionalReasons == {None} \cup {Some(r) : r \in NoRetryReasons}

QueueIdle ==
    /\ arrow_table = <<>>
    /\ n_valid_rows = 0
    /\ cur_row_index = 0
    /\ call = [name |-> "__init__", num_rows |-> 0, before |-> 0]
    /\ ret = <<>>
    /\ raised = "none"
    /\ started_at = 0
    /\ delivered = <<>>

InitRender ==
    /\ QueueIdle
    /\ BoundIdle
    /\ pc = "render"
    /\ error_info \in {Some(i) : i \in RequestErrorInfos}
    /\ error_retryable = TRUE
    /\ no_retry_reason = None
    /\ attempt = 1
    /\ max_attempts = 1
    /\ elapsed = 0
    /\ max_duration = 0
    /\ log_line = None
    /\ user_message = None

CallFullInfoLoggingStr ==
    \E reason \in OptionalReasons, att \in 1..MaxAttemptsBound, el \in 0..MaxDurationBound :
    \E max_att \in {1, MaxAttemptsBound}, max_dur \in {0, MaxDurationBound} :
        /\ pc = "render"
        /\ pc' = "rendered"
        /\ no_retry_reason' = reason
        /\ attempt' = att
        /\ max_attempts' = max_att
        /\ elapsed' = el
        /\ max_duration' = max_dur
        /\ log_line' = full_info_logging_call(error_info[1], reason, att, max_att,
                                               el, max_dur)
        /\ user_message' = None
        /\ UNCHANGED <<queue_vars, aux_vars, error_info, error_retryable>>

CallUserFriendlyErrorMessage ==
    \E reason \in OptionalReasons, att \in 1..MaxAttemptsBound, el \in 0..MaxDurationBound :
        /\ pc = "render"
        /\ pc' = "rendered"
        /\ no_retry_reason' = reason
        /\ attempt' = att
        /\ elapsed' = el
        /\ user_message' = Some(user_friendly_error_message(error_info[1], reason, att, el))
        /\ log_line' = None
        /\ UNCHANGED <<queue_vars, aux_vars, error_info, error_retryable, max_attempts,
                       max_duration>>

NextRender == CallFullInfoLoggingStr \/ CallUserFriendlyErrorMessage

SpecRender == InitRender /\ [][NextRender]_vars

(***************************************************************************)
(* The attempt loop (specification SpecRetry).  utils.py holds only the    *)
(* NoRetryReason enumeration and RequestErrorInfo; the loop and its        *)
(* termination check live in the caller and follow the design document's   *)
(* retry attempt policy.                                                   *)
(***************************************************************************)

\* A check that looks at the attempt budget before the error's classification.
NoRetryReasonForAttemptsFirst(retryable, att, max_att, el, delay, max_dur) ==
    IF att >= max_att THEN Some("OUT_OF_ATTEMPTS")
    ELSE IF ~retryable THEN Some("NOT_RETRYABLE")
    ELSE IF el + delay[1] > max_dur THEN Some("OUT_OF_TIME")
    ELSE None

\* A check that never looks at the attempt budget.
NoRetryReasonForNoAttemptsCheck(retryable, att, max_att, el, delay, max_dur) ==
    IF ~retryable THEN Some("NOT_RETRYABLE")
    ELSE IF el + delay[1] > max_dur THEN Some("OUT_OF_TIME")
    ELSE None

\* The termination check of the retry attempt policy, in its priority order.
NoRetryReasonFor(retryable, att, max_att, el, delay, max_dur) ==
    IF ~retryable THEN Some("NOT_RETRYABLE")
    ELSE IF att >= max_att THEN Some("OUT_OF_ATTEMPTS")
    ELSE IF el + delay[1] > max_dur THEN Some("OUT_OF_TIME")
    ELSE None

\* The failures the loop sees: a retryable one proposes a retry delay.
LoopErrorInfos ==
    {RequestErrorInfo(e, m, d, None, "ExecuteStatement", r) :
        e \in {CHOOSE x \in Errors : x.type = "OSError"},
        m \in {None, Some("timeout")}, d \in RetryDelays,
        r \in {q \in Requests : hasattr(q, "sessionHandle")}}

InitRetry ==
    /\ QueueIdle
    /\ BoundIdle
    /\ pc = "Attempting"
    /\ error_info = None
    /\ error_retryable = TRUE
    /\ no_retry_reason = None
    /\ attempt = 1
    /\ max_attempts \in 1..MaxAttemptsBound
    /\ elapsed = 0
    /\ max_duration \in 0..MaxDurationBound
    /\ log_line = None
    /\ user_message = None

\* The attempt succeeds: the loop ends with an ExecuteResponse.
AttemptSucceeds ==
    \E dt \in 0..MaxAttemptTime :
        /\ pc = "Attempting"
        /\ pc' = "Success"
        /\ elapsed' = elapsed + dt
        /\ UNCHANGED <<queue_vars, aux_vars, error_info, error_retryable, no_retry_reason, attempt,
                       max_attempts, max_duration, log_line, user_message>>

\* The attempt fails: a RequestErrorInfo is built, the termination check runs, the
\* diagnostic line is logged, and with a reason the user message is surfaced.
AttemptFails ==
    \E info \in LoopErrorInfos, retryable \in BOOLEAN, dt \in 0..MaxAttemptTime :
        LET el     == elapsed + dt
            reason == NoRetryReasonFor(retryable, attempt, max_attempts, el,
                                       info.retry_delay, max_duration)
        IN  /\ pc = "Attempting"
            /\ retryable => info.retry_delay # None
            /\ error_info' = Some(info)
            /\ error_retryable' = retryable
            /\ elapsed' = el
            /\ no_retry_reason' = reason
            /\ log_line' = full_info_logging_call(info, reason, attempt, max_attempts,
                                                   el, max_duration)
            /\ IF reason # None
               THEN /\ pc' = "Terminal"
                    /\ user_message' =
                         Some(user_friendly_error_message(info, reason, attempt, el))
               ELSE /\ pc' = "Retrying"
                    /\ user_message' = None
            /\ UNCHANGED <<queue_vars, aux_vars, attempt, max_attempts, max_duration>>

\* No reason: sleep retry_delay, increment attempt, attempt again.
SleepAndRetry ==
    /\ pc = "Retrying"
    /\ pc' = "Attempting"
    /\ elapsed' = elapsed + error_info[1].retry_delay[1]
    /\ attempt' = attempt + 1
    /\ UNCHANGED <<queue_vars, aux_vars, error_info, error_retryable, no_retry_reason, max_attempts,
                   max_duration, log_line, user_message>>

NextRetry == AttemptSucceeds \/ AttemptFails \/ SleepAndRetry

SpecRetry == InitRetry /\ [][NextRetry]_vars

\* One execution runs its loop sequentially and every attempt ends, in success or
\* in failure: the loop always takes its next step.
SpecRetryFair == SpecRetry /\ WF_vars(NextRetry)

(***************************************************************************)
(* _bound applied to any bounds and any value, then to its own result      *)
(* (specification SpecBound).                                              *)
(***************************************************************************)

\* The numbers _bound is tried on.
BoundValues == ((0 - MaxBoundValue)..MaxBoundValue) \cup {5, 10, 15}
OptionalBounds == {None} \cup {Some(v) : v \in BoundValues}

\* A plausible slip: the larger of the two where the smaller is meant.
_bound_max_for_min(min_x, max_x, x) ==
    IF min_x = None /\ max_x = None THEN x
    ELSE IF min_x = None THEN Max(max_x[1], x)
    ELSE IF max_x = None THEN Max(min_x[1], x)
    ELSE Min(max_x[1], Max(min_x[1], x))

\* A plausible slip: with both bounds, a test of x against min_x picks a bound.
_bound_threshold(min_x, max_x, x) ==
    IF min_x = None /\ max_x = None THEN x
    ELSE IF min_x = None THEN Min(max_x[1], x)
    ELSE IF max_x = None THEN Max(min_x[1], x)
    ELSE IF x > min_x[1] THEN max_x[1] ELSE min_x[1]

\* _bound
_bound(min_x, max_x, x) ==
    IF min_x = None /\ max_x = None THEN x
    ELSE IF min_x = None THEN Min(max_x[1], x)
    ELSE IF max_x = None THEN Max(min_x[1], x)
    ELSE Min(max_x[1], Max(min_x[1], x))

InitBound ==
    /\ QueueIdle
    /\ RetryIdleFields
    /\ ThreadsIdle
    /\ \E min_x \in OptionalBounds, max_x \in OptionalBounds, x \in BoundValues :
         bound_call = [stage |-> "args", min_x |-> min_x, max_x |-> max_x, x |-> x]

\* _bound(min_x, max_x, x)
CallBound ==
    /\ bound_call.stage = "args"
    /\ bound_call' = [stage |-> "once", min_x |-> bound_call.min_x,
                      max_x |-> bound_call.max_x, x |-> bound_call.x,
                      ret |-> _bound(bound_call.min_x, bound_call.max_x, bound_call.x)]
    /\ UNCHANGED <<queue_vars, retry_vars, thread_vars, multi_vars>>

\* _bound(min_x, max_x, r) on the result r of the first call
CallBoundOnResult ==
    /\ bound_call.stage = "once"
    /\ bound_call' = [stage |-> "twice", min_x |-> bound_call.min_x,
                      max_x |-> bound_call.max_x, x |-> bound_call.x,
                      ret |-> bound_call.ret,
                      ret2 |-> _bound(bound_call.min_x, bound_call.max_x, bound_call.ret)]
    /\ UNCHANGED <<queue_vars, retry_vars, thread_vars, multi_vars>>

NextBound == CallBound \/ CallBoundOnResult

SpecBound == InitBound /\ [][NextBound]_vars

(***************************************************************************)
(* Two threads calling into one ArrowQueue without serialization           *)
(* (specification SpecThreads).  A thread may be preempted between any two *)
(* reads and writes of self.cur_row_index: line 22 reads it, line 23 reads *)
(* it again, line 24 loads it and then stores the sum.                     *)
(***************************************************************************)

Threads == {1, 2}

\* The positive num_rows the threads ask for.
ThreadNumRowsArgs == 1..MaxRows

\* A thread that is not inside a call, after `n` calls.
ThreadIdle(n) ==
    [pc |-> "idle", method |-> "none", num_rows |-> 0, length |-> 0, offset |-> 0,
     rows |-> <<>>, loaded |-> 0, calls |-> n]

\* The positions (1-based) of the rows that a slice of `count` rows taken at
\* `offset` holds.
SlicePositions(t, offset, count) ==
    LET off == Min(Len(t), offset) IN (off + 1)..(off + count)

\* A queue over a table of up to MaxRows rows, shared by the threads.
InitThreads ==
    /\ RetryIdleFields
    /\ QueuesIdle
    /\ bound_call = [stage |-> "idle"]
    /\ \E t \in {u \in Tables : \A i \in 1..Len(u) : u[i] = "a"} :
       \E n \in 0..Len(t) : \E s \in 0..n :
         LET q == ArrowQueueInit(t, n, s)
         IN  /\ arrow_table = q.arrow_table
             /\ n_valid_rows = q.n_valid_rows
             /\ cur_row_index = q.cur_row_index
             /\ call = [name |-> "__init__", num_rows |-> 0, before |-> s]
             /\ started_at = s
             /\ handed = [p \in 1..Len(t) |-> 0]
    /\ ret = <<>>
    /\ raised = "none"
    /\ delivered = <<>>
    /\ threads = [t \in Threads |-> ThreadIdle(0)]
    /\ overlapped = FALSE

\* What no thread step changes.
ThreadFrame ==
    UNCHANGED <<arrow_table, n_valid_rows, call, ret, raised, started_at, delivered,
                retry_vars, bound_call, multi_vars>>

\* A thread enters next_n_rows(num_rows) or remaining_rows().
ThreadBegin(t) ==
    \E method \in {"next_n_rows", "remaining_rows"}, num_rows \in ThreadNumRowsArgs :
        /\ threads[t].pc = "idle"
        /\ threads[t].calls < MaxCallsPerThread
        /\ threads' = [threads EXCEPT ![t] =
                         [@ EXCEPT !.pc = IF method = "next_n_rows" THEN "line22"
                                          ELSE "line28_offset",
                                   !.method = method,
                                   !.num_rows = IF method = "next_n_rows" THEN num_rows
                                                ELSE 0]]
        /\ overlapped' = (overlapped \/ \E u \in Threads \ {t} : threads[u].pc # "idle")
        /\ UNCHANGED <<cur_row_index, handed>>
        /\ ThreadFrame

\* line 22: length = min(num_rows, self.n_valid_rows - self.cur_row_index)
ThreadLine22(t) ==
    /\ threads[t].pc = "line22"
    /\ threads' = [threads EXCEPT ![t] =
                     [@ EXCEPT !.pc = "line23",
                               !.length = next_n_rows_length(Self, threads[t].num_rows)]]
    /\ UNCHANGED <<cur_row_index, overlapped, handed>>
    /\ ThreadFrame

\* line 23: slice = self.arrow_table.slice(self.cur_row_index, length)
ThreadLine23(t) ==
    /\ threads[t].pc = "line23"
    /\ LET slice == TableSlice(arrow_table, cur_row_index, threads[t].length)
       IN  threads' = [threads EXCEPT ![t] =
                         [@ EXCEPT !.pc = "load", !.offset = cur_row_index,
                                   !.rows = slice.rows]]
    /\ UNCHANGED <<cur_row_index, overlapped, handed>>
    /\ ThreadFrame

\* line 28, first argument: self.cur_row_index
ThreadLine28Offset(t) ==
    /\ threads[t].pc = "line28_offset"
    /\ threads' = [threads EXCEPT ![t] =
                     [@ EXCEPT !.pc = "line28_slice", !.offset = cur_row_index]]
    /\ UNCHANGED <<cur_row_index, overlapped, handed>>
    /\ ThreadFrame

\* line 28, second argument and the call:
\* slice = self.arrow_table.slice(<offset>, self.n_valid_rows - self.cur_row_index)
ThreadLine28Slice(t) ==
    /\ threads[t].pc = "line28_slice"
    /\ LET length == remaining_rows_length(Self)
           slice  == TableSlice(arrow_table, threads[t].offset, length)
       IN  threads' = [threads EXCEPT ![t] =
                         [@ EXCEPT !.pc = "load", !.length = length, !.rows = slice.rows]]
    /\ UNCHANGED <<cur_row_index, overlapped, handed>>
    /\ ThreadFrame

\* lines 24 and 29, first half: self.cur_row_index is loaded
ThreadLoad(t) ==
    /\ threads[t].pc = "load"
    /\ threads' = [threads EXCEPT ![t] = [@ EXCEPT !.pc = "store", !.loaded = cur_row_index]]
    /\ UNCHANGED <<cur_row_index, overlapped, handed>>
    /\ ThreadFrame

\* lines 24-25 and 29-30, second half: the sum is stored and the slice returned
ThreadStoreAndReturn(t) ==
    /\ threads[t].pc = "store"
    /\ cur_row_index' =
         AdvanceCursor(Queue(arrow_table, n_valid_rows, threads[t].loaded),
                       threads[t].length, threads[t].rows).cur_row_index
    /\ handed' = [p \in DOMAIN handed |->
                    IF p \in SlicePositions(arrow_table, threads[t].offset,
                                            Len(threads[t].rows))
                    THEN handed[p] + 1 ELSE handed[p]]
    /\ threads' = [threads EXCEPT ![t] =
                     [ThreadIdle(threads[t].calls + 1) EXCEPT !.method = threads[t].method]]
    /\ UNCHANGED overlapped
    /\ ThreadFrame

NextThreads ==
    \E t \in Threads :
        \/ ThreadBegin(t)
        \/ ThreadLine22(t)
        \/ ThreadLine23(t)
        \/ ThreadLine28Offset(t)
        \/ ThreadLine28Slice(t)
        \/ ThreadLoad(t)
        \/ ThreadStoreAndReturn(t)

SpecThreads == InitThreads /\ [][NextThreads]_vars

(***************************************************************************)
(* Two ArrowQueue objects, over one table or over two (specification       *)
(* SpecQueues).  A queue holds a reference to its table, so a table two    *)
(* queues share is one object.                                             *)
(***************************************************************************)

QueueIds == {1, 2}

\* The tables in memory: reference 1 holds rows "a", reference 2 rows "b".
BatchesOf(len1, len2) ==
    << [i \in 1..len1 |-> "a"], [i \in 1..len2 |-> "b"] >>

\* The ArrowQueue object `i` with its table looked up.
QueueObject(bs, qs, i) ==
    Queue(bs[qs[i].arrow_table], qs[i].n_valid_rows, qs[i].cur_row_index)

\* A plausible slip: cur_row_index kept on the class, so one value for all queues.
StoreQueueOnClass(qs, i, q) ==
    [j \in DOMAIN qs |-> [qs[j] EXCEPT !.n_valid_rows = IF j = i THEN q.n_valid_rows ELSE @,
                                       !.cur_row_index = q.cur_row_index]]

\* The attributes a method leaves on its own object `i` (lines 16-18, 24, 29):
\* they are instance attributes.
StoreQueue(qs, i, q) ==
    [qs EXCEPT ![i] = [@ EXCEPT !.n_valid_rows = q.n_valid_rows,
                                !.cur_row_index = q.cur_row_index]]

\* The table object a method leaves behind: slice does not modify it.
StoreBatch(bs, ref, q) == [bs EXCEPT ![ref] = q.arrow_table]

InitQueues ==
    /\ QueueIdle
    /\ RetryIdleFields
    /\ bound_call = [stage |-> "idle"]
    /\ threads = <<>>
    /\ overlapped = FALSE
    /\ handed = <<>>
    /\ \E len1 \in 0..MaxRows, len2 \in 0..MaxRows :
         /\ batches = BatchesOf(len1, len2)
         /\ \E r2 \in {1, 2} :
            \E n1 \in 0..len1, n2 \in 0..Len(BatchesOf(len1, len2)[r2]) :
            \E s1 \in 0..n1, s2 \in 0..n2 :
              queues = << ArrowQueueInit(1, n1, s1), ArrowQueueInit(r2, n2, s2) >>
    /\ queue_called = [queue |-> 0, name |-> "__init__"]

\* The effect of a method's outcome on queue `i` and on its table.
ApplyTo(i, name, o) ==
    /\ queues' = StoreQueue(queues, i, o.queue)
    /\ batches' = StoreBatch(batches, queues[i].arrow_table, o.queue)
    /\ queue_called' = [queue |-> i, name |-> name]
    /\ UNCHANGED <<queue_vars, retry_vars, bound_call, thread_vars>>

\* queues[i].next_n_rows(num_rows)
QueueNextNRows(i) ==
    \E num_rows \in NumRowsArgs :
        ApplyTo(i, "next_n_rows", next_n_rows(QueueObject(batches, queues, i), num_rows))

\* queues[i].remaining_rows()
QueueRemainingRows(i) ==
    ApplyTo(i, "remaining_rows", remaining_rows(QueueObject(batches, queues, i)))

NextQueues == \E i \in QueueIds : QueueNextNRows(i) \/ QueueRemainingRows(i)

SpecQueues == InitQueues /\ [][NextQueues]_vars

(***************************************************************************)
(* Properties of ArrowQueue (specification Spec).                          *)
(***************************************************************************)

\* The rows of the table at positions [from, from + count).
RowsAt(from, count) == SubSeq(arrow_table, from + 1, from + count)

\* C1: in every state reached by next_n_rows and remaining_rows calls on a queue
\* constructed with 0 <= start_row_index <= n_valid_rows <= rows of the table,
\* 0 <= cur_row_index <= n_valid_rows <= rows of the table.
C1_CursorInvariant ==
    /\ 0 <= cur_row_index
    /\ cur_row_index <= n_valid_rows
    /\ n_valid_rows <= Len(arrow_table)

\* A call asked for more rows than were left, in a table with rows past the valid
\* ones, and the cursor stopped at n_valid_rows.
C1_Witness ==
    /\ call.name = "next_n_rows"
    /\ call.num_rows > n_valid_rows - call.before
    /\ call.before < cur_row_index
    /\ cur_row_index = n_valid_rows
    /\ n_valid_rows < Len(arrow_table)

\* C2 as stated: next_n_rows(n) returns the rows at [cursor, cursor + take) with
\* take = min(n, n_valid_rows - cursor), advances the cursor by exactly take, and
\* does not raise.
C2_AsStated ==
    call.name = "next_n_rows" =>
        LET take == Min(call.num_rows, n_valid_rows - call.before)
        IN  /\ raised = "none"
            /\ ret = RowsAt(call.before, take)
            /\ cur_row_index = call.before + take

\* C2, amended: next_n_rows(n) returns the rows at [cursor, cursor + take) with
\* take = max(0, min(n, n_valid_rows - cursor)), advances the cursor by exactly
\* take, and does not raise, also when n exceeds the rows left.
C2_NextRowsSlice ==
    call.name = "next_n_rows" =>
        LET take == Max(0, Min(call.num_rows, n_valid_rows - call.before))
        IN  /\ raised = "none"
            /\ ret = RowsAt(call.before, take)
            /\ Len(ret) = take
            /\ cur_row_index = call.before + take

\* A call asked for more rows than were left and got the fewer rows left.
C2_Witness ==
    /\ call.name = "next_n_rows"
    /\ call.num_rows > n_valid_rows - call.before
    /\ Len(ret) = n_valid_rows - call.before
    /\ Len(ret) > 0
    /\ raised = "none"

\* C3: exhaustion is absorbing: a remaining_rows call leaves the queue exhausted,
\* and every call made on an exhausted queue (cur_row_index = n_valid_rows)
\* returns no rows and leaves cur_row_index unchanged.
C3_ExhaustionAbsorbing ==
    /\ [](call.name = "remaining_rows" => cur_row_index = n_valid_rows)
    /\ [][cur_row_index = n_valid_rows =>
            /\ ret' = <<>>
            /\ raised' = "none"
            /\ cur_row_index' = cur_row_index]_vars

\* A call made on an exhausted queue whose table has rows past the valid ones.
C3_Witness ==
    /\ call.name \in {"next_n_rows", "remaining_rows"}
    /\ call.name = "next_n_rows" => call.num_rows > 0
    /\ call.before = n_valid_rows
    /\ n_valid_rows < Len(arrow_table)
    /\ n_valid_rows > 0
    /\ ret = <<>>

\* C4: next_n_rows(n) with n <= 0 returns no rows, raises nothing and leaves
\* cur_row_index unchanged.
C4_NonPositiveIsEmpty ==
    (call.name = "next_n_rows" /\ call.num_rows <= 0) =>
        /\ ret = <<>>
        /\ raised = "none"
        /\ cur_row_index = call.before

\* A negative num_rows on a queue that has rows behind and ahead of the cursor.
C4_Witness ==
    /\ call.name = "next_n_rows"
    /\ call.num_rows < 0
    /\ 0 < call.before
    /\ call.before < n_valid_rows
    /\ cur_row_index = call.before

\* C5: no call leaves cur_row_index smaller than it found it.
C5_CursorNonDecreasing == [][cur_row_index' >= cur_row_index]_vars

\* A remaining_rows call that moved the cursor.
C5_Witness ==
    /\ call.name = "remaining_rows"
    /\ call.before < cur_row_index

\* C6: from every reachable state remaining_rows() and
\* next_n_rows(n_valid_rows - cur_row_index) have the same outcome (rows, queue,
\* no exception), the queue is exhausted afterwards, and a remaining_rows call
\* that was made left what that next_n_rows call would have left.
C6_RemainingIsNextOfRest ==
    /\ LET a == remaining_rows(Self)
           b == next_n_rows(Self, n_valid_rows - cur_row_index)
       IN  /\ a = b
           /\ a.raised = "none"
           /\ a.queue.cur_row_index = n_valid_rows
    /\ call.name = "remaining_rows" =>
         LET q0 == Queue(arrow_table, n_valid_rows, call.before)
             b  == next_n_rows(q0, n_valid_rows - call.before)
         IN  /\ b.queue = Self
             /\ b.ret = ret
             /\ b.raised = raised

\* A remaining_rows call that returned rows from the middle of the table.
C6_Witness ==
    /\ call.name = "remaining_rows"
    /\ call.before > 0
    /\ Len(ret) > 0
    /\ cur_row_index = n_valid_rows
    /\ n_valid_rows < Len(arrow_table)

(***************************************************************************)
(* Properties of the attempt loop (specification SpecRetry).               *)
(***************************************************************************)

\* C7: after each failed attempt the reason is NOT_RETRYABLE exactly when the
\* error is non-retryable; OUT_OF_ATTEMPTS exactly when it is retryable and
\* attempt >= max_attempts; OUT_OF_TIME exactly when it is retryable, attempts are
\* left and elapsed + retry_delay > max_duration; and absent (retry) exactly when
\* none of the three holds. The loop is terminal exactly when there is a reason.
C7_ReasonPriority ==
    pc \in {"Retrying", "Terminal"} =>
        LET delay         == error_info[1].retry_delay
            outOfAttempts == attempt >= max_attempts
            outOfTime     == delay # None /\ elapsed + delay[1] > max_duration
        IN  /\ (no_retry_reason = Some("NOT_RETRYABLE")) <=> ~error_retryable
            /\ (no_retry_reason = Some("OUT_OF_ATTEMPTS")) <=>
                   (error_retryable /\ outOfAttempts)
            /\ (no_retry_reason = Some("OUT_OF_TIME")) <=>
                   (error_retryable /\ ~outOfAttempts /\ outOfTime)
            /\ (no_retry_reason = None) <=>
                   (error_retryable /\ ~outOfAttempts /\ ~outOfTime)
            /\ (pc = "Terminal") <=> (no_retry_reason # None)

\* A non-retryable failure with both budgets exhausted as well: NOT_RETRYABLE wins.
C7_Witness ==
    /\ pc = "Terminal"
    /\ ~error_retryable
    /\ attempt >= max_attempts
    /\ error_info[1].retry_delay # None
    /\ elapsed + error_info[1].retry_delay[1] > max_duration
    /\ no_retry_reason = Some("NOT_RETRYABLE")

(***************************************************************************)
(* Properties of the renderings (specification SpecRender).                *)
(***************************************************************************)

\* C8: user_friendly_error_message returns the base sentence (with the error
\* message, if any) followed by the retry-attempts suffix exactly when the reason
\* is OUT_OF_ATTEMPTS, by the elapsed-seconds suffix exactly when it is
\* OUT_OF_TIME, and by nothing when it is NOT_RETRYABLE or None; never by both.
C8_AtMostOneSuffix ==
    user_message # None =>
        LET info   == error_info[1]
            suffix ==
                CASE no_retry_reason = Some("OUT_OF_ATTEMPTS") ->
                        ": After " \o ToString(attempt)
                            \o " retry attempts, retries are exhausted"
                  [] no_retry_reason = Some("OUT_OF_TIME") ->
                        ": After " \o ToString(elapsed)
                            \o " seconds, maximum retry duration will be exceeded"
                  [] OTHER -> ""
        IN  /\ user_message[1] = UserMessageBase(info) \o suffix
            /\ (info.error_message = Some("timeout")
                  /\ no_retry_reason = Some("OUT_OF_ATTEMPTS") /\ attempt = 3)
               => user_message[1] = "Error during request to server: timeout: "
                       \o "After 3 retry attempts, retries are exhausted"

\* The design document's scenario: "timeout", OUT_OF_ATTEMPTS, attempt 3.
C8_Witness ==
    /\ pc = "rendered"
    /\ no_retry_reason = Some("OUT_OF_ATTEMPTS")
    /\ attempt = 3
    /\ user_message = Some("Error during request to server: timeout: "
                           \o "After 3 retry attempts, retries are exhausted")

\* C9: full_info_logging_str emits Method, Session-id, Query-id, HTTP-code,
\* Error-message, Original-exception in that order, then No-retry-reason alone
\* when there is a reason, or Bounded-retry-delay, Attempt, Elapsed-seconds in
\* that order when there is none; never both tails.
C9_FieldOrder ==
    log_line # None =>
        LET info == error_info[1]
            d    == log_base_data_dict(info, no_retry_reason, attempt, max_attempts,
                                       elapsed, max_duration)
            head == "Method: " \o info.method
                    \o "; Session-id: " \o StrOfOptionalStr(request_session_id(info))
                    \o "; Query-id: " \o StrOfOptionalStr(request_query_id(info))
                    \o "; HTTP-code: " \o StrOfOptionalInt(info.http_code)
                    \o "; Error-message: " \o StrOfOptionalStr(info.error_message)
                    \o "; Original-exception: " \o info.error.message
            tail == IF no_retry_reason # None
                    THEN "; No-retry-reason: " \o NoRetryReasonValue(no_retry_reason[1])
                    ELSE "; Bounded-retry-delay: " \o StrOfOptionalInt(info.retry_delay)
                         \o "; Attempt: " \o ToString(attempt) \o "/"
                         \o ToString(max_attempts)
                         \o "; Elapsed-seconds: " \o ToString(elapsed) \o "/"
                         \o ToString(max_duration)
        IN  /\ Keys(d) = << "Method", "Session-id", "Query-id", "HTTP-code",
                            "Error-message", "Original-exception" >>
                         \o (IF no_retry_reason # None
                             THEN << "No-retry-reason" >>
                             ELSE << "Bounded-retry-delay", "Attempt",
                                     "Elapsed-seconds" >>)
            /\ log_line[1] = head \o tail

\* A line rendered without a reason: it ends with the three retry fields.
C9_Witness ==
    /\ pc = "rendered"
    /\ no_retry_reason = None
    /\ log_line = Some("Method: ExecuteStatement; Session-id: guid-s1; Query-id: None; "
                       \o "HTTP-code: 503; Error-message: timeout; "
                       \o "Original-exception: Connection reset by peer; "
                       \o "Bounded-retry-delay: 1; Attempt: 1/3; Elapsed-seconds: 2/3")

\* C10: the user-facing message does not depend on the `error` field: replacing
\* it by any other error leaves user_friendly_error_message unchanged, for every
\* reason, attempt and elapsed; the diagnostic line does change with it.
C10_ErrorNotInUserMessage ==
    /\ user_message # None =>
         \A e \in Errors :
            user_friendly_error_message([error_info[1] EXCEPT !.error = e],
                                        no_retry_reason, attempt, elapsed)
              = user_message[1]
    /\ log_line # None =>
         \A e \in Errors \ {error_info[1].error} :
            full_info_logging_str([error_info[1] EXCEPT !.error = e], no_retry_reason,
                                  attempt, max_attempts, elapsed, max_duration)
              # log_line[1]

\* A user message rendered for a failure that has no error message of its own.
C10_Witness ==
    /\ pc = "rendered"
    /\ user_message # None
    /\ error_info[1].error_message = None
    /\ no_retry_reason = Some("OUT_OF_TIME")
    /\ elapsed > 0

\* C11: for each request variant the session id is present exactly when the
\* request carries a session handle and the query id exactly when it carries an
\* operation handle, neither property raises, and full_info_logging_str returns a
\* line (no exception) that prints an absent identifier as "None".
C11_AbsentIdsRenderNone ==
    LET info == error_info[1]
        req  == info.request
        sid  == request_session_id(info)
        qid  == request_query_id(info)
        ids  == CASE req = SessionScopedRequest -> "Session-id: guid-s1; Query-id: None"
                  [] req = OperationScopedRequest -> "Session-id: None; Query-id: guid-q1"
                  [] req = OtherRequest -> "Session-id: None; Query-id: None"
        rest == Join("; ", [i \in 1..(Len(log_base_data_dict(info, no_retry_reason,
                                attempt, max_attempts, elapsed, max_duration)) - 3) |->
                    LET it == log_base_data_dict(info, no_retry_reason, attempt,
                                  max_attempts, elapsed, max_duration)[i + 3]
                    IN  it.k \o ": " \o it.v])
    IN  pc \in {"render", "rendered"} =>
          /\ sid = (IF req = SessionScopedRequest THEN Some("guid-s1") ELSE None)
          /\ qid = (IF req = OperationScopedRequest THEN Some("guid-q1") ELSE None)
          /\ log_line # None =>
               log_line = Some("Method: " \o info.method \o "; " \o ids \o "; " \o rest)

\* A line rendered for a request that carries neither handle.
C11_Witness ==
    /\ pc = "rendered"
    /\ error_info[1].request = OtherRequest
    /\ no_retry_reason = Some("NOT_RETRYABLE")
    /\ log_line = Some("Method: ExecuteStatement; Session-id: None; Query-id: None; "
                       \o "HTTP-code: None; Error-message: None; "
                       \o "Original-exception: TSocket read 0 bytes; "
                       \o "No-retry-reason: non-retryable error")

(***************************************************************************)
(* Properties of _bound (specification SpecBound).                         *)
(***************************************************************************)

\* C12: _bound returns x when both bounds are None; the smaller of max_x and x
\* when only min_x is None; the larger of min_x and x when only max_x is None;
\* and with both bounds and min_x <= max_x a value of [min_x, max_x]: x itself
\* when x lies in the range, else the bound x lies beyond. With min_x > max_x,
\* min(max_x, max(min_x, x)) is max_x.
C12_BoundCases ==
    bound_call.stage \in {"once", "twice"} =>
        LET lo == bound_call.min_x
            hi == bound_call.max_x
            x  == bound_call.x
            r  == bound_call.ret
        IN  /\ (lo = None /\ hi = None) => r = x
            /\ (lo = None /\ hi # None) =>
                   /\ r <= hi[1] /\ r <= x /\ r \in {hi[1], x}
            /\ (lo # None /\ hi = None) =>
                   /\ r >= lo[1] /\ r >= x /\ r \in {lo[1], x}
            /\ (lo # None /\ hi # None) =>
                   /\ lo[1] <= hi[1] =>
                        /\ lo[1] <= r /\ r <= hi[1]
                        /\ (lo[1] <= x /\ x <= hi[1]) => r = x
                        /\ x < lo[1] => r = lo[1]
                        /\ x > hi[1] => r = hi[1]
                   /\ lo[1] > hi[1] => r = hi[1]
            /\ (lo = None /\ hi = Some(10) /\ x = 15) => r = 10
            /\ (lo = Some(0) /\ hi = None /\ x = 0 - 3) => r = 0
            /\ (lo = Some(0) /\ hi = Some(10) /\ x = 5) => r = 5

\* The design document's scenario _bound(None, 10, 15) = 10.
C12_Witness ==
    /\ bound_call.stage = "once"
    /\ bound_call.min_x = None
    /\ bound_call.max_x = Some(10)
    /\ bound_call.x = 15
    /\ bound_call.ret = 10

\* C15: _bound is idempotent for every combination of bounds, min_x > max_x
\* included: applied to its own result with the same bounds it returns that result.
C15_BoundIdempotent ==
    bound_call.stage = "twice" => bound_call.ret2 = bound_call.ret

\* Both bounds present, min_x > max_x, and a value that the first call changed.
C15_Witness ==
    /\ bound_call.stage = "twice"
    /\ bound_call.min_x # None
    /\ bound_call.max_x # None
    /\ bound_call.min_x[1] > bound_call.max_x[1]
    /\ bound_call.ret # bound_call.x
    /\ bound_call.ret2 = bound_call.ret

(***************************************************************************)
(* Termination of the attempt loop (specification SpecRetryFair).          *)
(***************************************************************************)

\* C13: the attempt loop always terminates: attempt never exceeds max_attempts,
\* and every execution reaches Terminal or Success.
C13_LoopTerminates ==
    /\ [](attempt <= max_attempts)
    /\ <>(pc \in {"Terminal", "Success"})

\* The loop used its whole attempt budget, with retry delays of zero, and stopped
\* for that reason.
C13_Witness ==
    /\ pc = "Terminal"
    /\ max_attempts = MaxAttemptsBound
    /\ attempt = max_attempts
    /\ error_info[1].retry_delay = Some(0)
    /\ elapsed = 0
    /\ no_retry_reason = Some("OUT_OF_ATTEMPTS")

(***************************************************************************)
(* The base of the user message (specification SpecRender).                *)
(***************************************************************************)

\* C14 as stated: the message is "Error during request to server", then
\* ": " + error_message for every error_message that is not None (the empty
\* string included), then the reason's suffix.
C14_AsStated ==
    user_message # None =>
        LET m    == error_info[1].error_message
            base == IF m # None
                    THEN "Error during request to server" \o ": " \o m[1]
                    ELSE "Error during request to server"
        IN  user_message[1] = UserMessageSuffix(base, no_retry_reason, attempt, elapsed)

\* C14, amended: the message is "Error during request to server", then
\* ": " + error_message when error_message is present and not the empty string,
\* and nothing when it is None or empty, then the reason's suffix.
C14_BaseAndErrorMessage ==
    user_message # None =>
        LET m    == error_info[1].error_message
            base == IF m \notin {None, Some("")}
                    THEN "Error during request to server" \o ": " \o m[1]
                    ELSE "Error during request to server"
        IN  /\ user_message[1] = UserMessageSuffix(base, no_retry_reason, attempt, elapsed)
            /\ (m = Some("timeout") /\ no_retry_reason = None) =>
                   user_message[1] = "Error during request to server: timeout"
            /\ (m \in {None, Some("")} /\ no_retry_reason = None) =>
                   user_message[1] = "Error during request to server"

\* A message rendered for an empty error_message: the bare base sentence.
C14_Witness ==
    /\ pc = "rendered"
    /\ error_info[1].error_message = Some("")
    /\ no_retry_reason = None
    /\ user_message = Some("Error during request to server")

(***************************************************************************)
(* The rows delivered by one queue (specification Spec).                   *)
(***************************************************************************)

\* C16: after any sequence of next_n_rows and remaining_rows calls, the returned
\* slices, concatenated in call order, are exactly the rows of the table from
\* start_row_index up to cur_row_index: none twice, none skipped.
C16_DeliveredOnceInOrder ==
    /\ started_at <= cur_row_index
    /\ delivered = RowsAt(started_at, cur_row_index - started_at)

\* Rows were delivered by an earlier call and again by a remaining_rows call.
C16_Witness ==
    /\ call.name = "remaining_rows"
    /\ started_at < call.before
    /\ call.before < cur_row_index
    /\ Len(delivered) > Len(ret)
    /\ Len(ret) > 0

(***************************************************************************)
(* Unserialized callers (specification SpecThreads).                       *)
(***************************************************************************)

\* Some row was returned to callers more than once.
RowHandedTwice == \E p \in DOMAIN handed : handed[p] > 1

\* C17: the single-consumer rule is what keeps the queue sound: as long as no
\* call began while another was in progress, no row is returned twice and
\* cur_row_index stays within n_valid_rows; with the steps of two callers
\* interleaved, a state is reachable where the same row went to both callers or
\* cur_row_index exceeds n_valid_rows (C17_Witness).
C17_SerializedCallsAreSound ==
    ~overlapped => (~RowHandedTwice /\ cur_row_index <= n_valid_rows)

\* Two interleaved callers: the same row went to both and the cursor is past
\* n_valid_rows.
C17_Witness ==
    /\ overlapped
    /\ RowHandedTwice
    /\ cur_row_index > n_valid_rows
    /\ \A t \in Threads : threads[t].pc = "idle" /\ threads[t].calls = 1
                          /\ threads[t].method = "next_n_rows"

(***************************************************************************)
(* Several queues (specification SpecQueues).                              *)
(***************************************************************************)

\* C18: a call on one queue changes only that queue's cur_row_index: no table
\* changes, no queue's table reference or n_valid_rows changes, and every other
\* queue, one over the same table included, stays as it was.
C18_OnlyOwnCursorChanges ==
    [][/\ batches' = batches
       /\ \A i \in DOMAIN queues :
            /\ queues'[i].arrow_table = queues[i].arrow_table
            /\ queues'[i].n_valid_rows = queues[i].n_valid_rows
            /\ i # queue_called'.queue => queues'[i] = queues[i]]_vars

\* Two queues over the same table: the first was drained and moved, the second
\* still stands before rows that the first has passed.
C18_Witness ==
    /\ queues # <<>>
    /\ queues[1].arrow_table = queues[2].arrow_table
    /\ queue_called = [queue |-> 1, name |-> "remaining_rows"]
    /\ queues[1].cur_row_index = queues[1].n_valid_rows
    /\ queues[2].cur_row_index < queues[1].cur_row_index
    /\ queues[2].cur_row_index < queues[2].n_valid_rows

====
